---- MODULE Spec2Model ----
\* A model of the two realtime pages of the CRM client (src/pages/Leads.tsx and
\* src/pages/HandleCustomer.tsx) against the backend whose read policies and
\* change-feed publication are installed by
\* src/supabase/migrations/20250804081132_blue_unit.sql.
\*
\* Both pages have the same shape: the page shows the leads table and one second
\* table (notes on Leads, follow_ups on HandleCustomer).  The state variables
\* notes / noteText and the action addNote stand for followUps / followUpText /
\* handleFollowUp when page = "HandleCustomer".
\*
\* Every backend call is asynchronous: a request is first "sent", the backend
\* then answers it (reading or writing the tables at that moment), and the
\* answer is applied by the client in a later step.  State setters called after
\* the page has unmounted have no effect.
EXTENDS Integers, Sequences, FiniteSets, TLC

\* ------------------------------------------------------------------ bounds
MaxLen == 1        \* longest text typed into the textarea
MaxOps == 2        \* calls of addNote and updateLeadStatus, and writes by other
                   \* clients, taken together

\* ------------------------------------------------------------------ values
NULL == "null"
Pages == {"Leads", "HandleCustomer"}
LeadIds == {"l1", "l2"}
Statuses == {"new", "contacted", "qualified", "closed"}
Roles == {"superadmin", "admin", "hc"}
UserIds == {"u1", "u2", "u3"}
Chars == {" ", "a"}
Texts == UNION {[1..n -> Chars] : n \in 0..MaxLen}

VARIABLES
  page,         \* which page component this is
  caller,       \* auth.uid() of the session
  users,        \* backend table users: id -> role (NULL: no such row)
  published,    \* tables in the publication supabase_realtime
  dbLeads,      \* backend table leads: id -> [status, assigned_to]
  dbNotes,      \* backend second table (notes / follow_ups), in insertion order
  phase,        \* "rendered" (before the effect ran), "mounted", "unmounted"
  leads,        \* useState: local snapshot of leads
  notes,        \* useState: local snapshot of notes / followUps
  loading,      \* useState
  selectedLead, \* useState: id of the selected Lead, or NULL
  noteText,     \* useState: noteText / followUpText
  submitting,   \* useState
  chan,         \* per subscribed table: "none", "joining", "joined", "closed"
  unsubCount,   \* per subscribed table: calls of unsubscribe()
  pendingEv,    \* per subscribed table: change events not yet delivered
  lag,          \* per table: change events delivered on it, minus the
                \* refetches of it that change-event callbacks started
  fetches,      \* reads in flight, in the order they were issued
  initPc,       \* fetchData: "idle", "awaiting", "done", "rejected"
  initSettled,  \* tables whose initial fetch has fulfilled
  addPc,        \* addNote: "idle", "inserting", "refetching"
  addReq,       \* the insert of the running addNote
  upd,          \* the running updateLeadStatus invocations, by slot
  addCalls,     \* calls of addNote / handleFollowUp so far
  skipped,      \* the form at the last call of addNote that returned at its guard
  upCalls,      \* calls of updateLeadStatus so far
  extWrites,    \* writes committed by other clients so far
  silent,       \* failed writes that settled with no console.error call
  readFailed,   \* a read has failed since the page was mounted
  lateStored,   \* the rows of a read were stored after those of a read of the
                \* same table that was issued after it
  query         \* the last SELECT decided by the read policies

env == <<page, caller, users, published, query>>
db == <<dbLeads, dbNotes>>
form == <<selectedLead, noteText>>
channels == <<chan, unsubCount, pendingEv>>
init == <<initPc, initSettled>>
add == <<addPc, addReq>>
ops == <<addCalls, skipped, upCalls, extWrites>>
reads == <<readFailed, lateStored>>
vars == <<page, caller, users, published, dbLeads, dbNotes, phase, leads, notes,
          loading, selectedLead, noteText, submitting, chan, unsubCount,
          pendingEv, lag, fetches, initPc, initSettled, addPc,
          addReq, upd, addCalls, skipped, upCalls, extWrites,
          silent, readFailed, lateStored, query>>

\* ------------------------------------------------------------------ text
\* String.prototype.trim: strips whitespace from both ends.
RECURSIVE TrimStart(_)
TrimStart(s) == IF s # <<>> /\ Head(s) = " " THEN TrimStart(Tail(s)) ELSE s

RECURSIVE TrimEnd(_)
TrimEnd(s) ==
  IF s # <<>> /\ s[Len(s)] = " " THEN TrimEnd(SubSeq(s, 1, Len(s) - 1)) ELSE s

Trim(s) == TrimEnd(TrimStart(s))

\* ------------------------------------------------------------------ tables
SecondTable(p) == IF p = "Leads" THEN "notes" ELSE "follow_ups"

PageTables(p) == {"leads", SecondTable(p)}

\* ALTER PUBLICATION supabase_realtime ADD TABLE ...
MigrationPublication ==
  {"users", "products", "packages", "leads", "notes", "targets",
   "handle_customer_data"}

\* ------------------------------------------------------------------ read policies
\* Rows of users: the ids with a row (us[u] = NULL: no row with that id).
UserRows(us) == {u \in UserIds : us[u] # NULL}

\* CREATE POLICY "Enable real-time for leads" ON leads FOR SELECT USING (EXISTS ...).
\* uid is auth.uid(); a NULL uid or a NULL assigned_to equals no id.
LeadsPolicyAdminAll(us, uid, lead) ==
  \E u \in UserRows(us) :
    /\ u = uid
    /\ us[u] \in {"superadmin", "admin", "hc"}

LeadsPolicy(us, uid, lead) ==
  \E u \in UserRows(us) :
    /\ u = uid
    /\ \/ us[u] = "superadmin"
       \/ (us[u] = "admin" /\ u = lead.assigned_to)
       \/ us[u] = "hc"

\* CREATE POLICY "Enable real-time for notes" ON notes FOR SELECT USING (EXISTS ...):
\* leads l JOIN users u ON u.id = auth.uid() WHERE l.id = notes.lead_id AND (...).
NotesPolicy(us, ls, uid, note) ==
  \E l \in DOMAIN ls : \E u \in UserRows(us) :
    /\ u = uid
    /\ l = note.lead_id
    /\ \/ us[u] = "superadmin"
       \/ (us[u] = "admin" /\ u = ls[l].assigned_to)
       \/ us[u] = "hc"

\* CREATE POLICY "Enable real-time for handle_customer_data" ... role IN (...).
HandleCustomerDataPolicy(us, uid) ==
  \E u \in UserRows(us) : u = uid /\ us[u] \in {"superadmin", "hc"}

\* users, products, packages, targets: FOR SELECT USING (true).
OpenPolicy == TRUE

\* Tables on which the migration installs a read policy.
PolicyTables ==
  {"users", "products", "packages", "leads", "notes", "targets",
   "handle_customer_data"}

\* Whether caller uid may SELECT `row` of `table`.  follow_ups has no policy in
\* the migration and is read unrestricted.
SelectAllowed(us, ls, uid, table, row) ==
  CASE table = "leads" -> LeadsPolicy(us, uid, row)
    [] table = "notes" -> NotesPolicy(us, ls, uid, row)
    [] table = "handle_customer_data" -> HandleCustomerDataPolicy(us, uid)
    [] table \in {"users", "products", "packages", "targets"} -> OpenPolicy
    [] OTHER -> TRUE

\* ------------------------------------------------------------------ backend reads
Reverse(s) == [i \in 1..Len(s) |-> s[Len(s) + 1 - i]]

RemoveAt(s, i) == SubSeq(s, 1, i - 1) \o SubSeq(s, i + 1, Len(s))

\* The leads rows by created_at descending (l1 was created before l2).
LeadOrder == <<"l2", "l1">>

LeadRow(l) ==
  [id |-> l, status |-> dbLeads[l].status, assigned_to |-> dbLeads[l].assigned_to]

\* .from(table).select('*').order('created_at', { ascending: false }), as the
\* backend answers it for the caller: the rows the read policy lets through.
Snapshot(table) ==
  IF table = "leads"
  THEN SelectSeq([i \in 1..Len(LeadOrder) |-> LeadRow(LeadOrder[i])],
                 LAMBDA r : SelectAllowed(users, dbLeads, caller, "leads", r))
  ELSE Reverse(SelectSeq(dbNotes,
                 LAMBDA r : SelectAllowed(users, dbLeads, caller, table, r)))

Ids(rows) == {rows[i].id : i \in 1..Len(rows)}

\* ------------------------------------------------------------------ initial state
NoReq == [lead_id |-> NULL, content |-> <<>>, stage |-> "none", id |-> 0]
NoUpd == [pc |-> "none", leadId |-> NULL, status |-> NULL, stage |-> "none",
          over |-> FALSE]
NoSkip == [selectedLead |-> NULL, noteText |-> <<"-">>]
NoQuery == [uid |-> NULL, table |-> NULL, lead |-> NULL, allowed |-> FALSE]

\* useState(...) initial values; no effect has run, nothing is in flight.
Constructed ==
  /\ phase = "rendered"
  /\ leads = <<>>
  /\ notes = <<>>
  /\ loading = TRUE
  /\ selectedLead = NULL
  /\ noteText = <<>>
  /\ submitting = FALSE
  /\ chan = [t \in PageTables(page) |-> "none"]
  /\ unsubCount = [t \in PageTables(page) |-> 0]
  /\ pendingEv = [t \in PageTables(page) |-> 0]
  /\ lag = [t \in PageTables(page) |-> 0]
  /\ fetches = <<>>
  /\ initPc = "idle"
  /\ initSettled = {}
  /\ addPc = "idle"
  /\ addReq = NoReq
  /\ upd = [k \in 1..MaxOps |-> NoUpd]
  /\ addCalls = 0
  /\ skipped = NoSkip
  /\ upCalls = 0
  /\ extWrites = 0
  /\ silent = 0
  /\ readFailed = FALSE
  /\ lateStored = FALSE
  /\ query = NoQuery

\* The backend after the migration: the seeded superadmin u1, plus an admin u2
\* and an hc user u3 created since; lead l1 is assigned to u2, l2 to nobody.
\* The session is u2's, who may read l1 and not l2.
\* follow_ups is not added to the publication by the migration; whether an
\* earlier migration added it is not known.
Init ==
  /\ page \in Pages
  /\ users = [u \in UserIds |->
                CASE u = "u1" -> "superadmin" [] u = "u2" -> "admin" [] OTHER -> "hc"]
  /\ caller = "u2"
  /\ published \in {MigrationPublication} \cup
                   {MigrationPublication \cup {"follow_ups"} : x \in {page} \ {"Leads"}}
  /\ dbLeads = [l \in LeadIds |->
                  [status |-> "new",
                   assigned_to |-> IF l = "l1" THEN "u2" ELSE NULL]]
  /\ dbNotes = <<>>
  /\ Constructed

\* ------------------------------------------------------------------ mount, channels
\* Handler calls and writes by other clients are counted together.
Budget == addCalls + upCalls + extWrites < MaxOps

Mounted == phase = "mounted"

NewFetch(table, origin, k) ==
  [table |-> table, origin |-> origin, k |-> k, stage |-> "sent", res |-> "none",
   data |-> <<>>, late |-> FALSE]

\* The tables the effect opens a channel on.
Subscriptions(p) == PageTables(p)

\* useEffect(() => { fetchData(); ...subscribe(); ...subscribe(); }, []), with
\* fetchData up to its await: setLoading(true) and both initial reads issued.
Mount ==
  /\ phase = "rendered"
  /\ phase' = "mounted"
  /\ loading' = TRUE
  /\ initPc' = "awaiting"
  /\ fetches' = fetches \o <<NewFetch("leads", "initial", 0),
                             NewFetch(SecondTable(page), "initial", 0)>>
  /\ chan' = [t \in DOMAIN chan |->
                IF t \in Subscriptions(page) THEN "joining" ELSE chan[t]]
  /\ UNCHANGED <<env, db, leads, notes, form, submitting, unsubCount, pendingEv,
                 lag, initSettled, add, upd, ops, silent, reads>>

\* The realtime server acknowledges .subscribe(): the channel is active.
Joined(t) ==
  /\ chan[t] = "joining"
  /\ chan' = [chan EXCEPT ![t] = "joined"]
  /\ UNCHANGED <<env, db, phase, leads, notes, loading, form, submitting,
                 unsubCount, pendingEv, lag, fetches, init, add, upd, ops,
                 silent, reads>>

\* A change committed on table t produces one event on every active channel for
\* t, when t is in the publication.
Publish(pe, t) ==
  IF t \in DOMAIN chan /\ chan[t] = "joined" /\ t \in published
  THEN [pe EXCEPT ![t] = @ + 1]
  ELSE pe

\* Variant of Callback: both channels refetch leads.
CallbackLeadsOnly(p, t) == "leads"

\* The table the channel's callback refetches: () => fetchLeads() on
\* leads_changes, () => fetchNotes() / fetchFollowUps() on the other channel.
Callback(p, t) == IF t = "leads" THEN "leads" ELSE SecondTable(p)

\* A change event is delivered on the channel of table t: its callback runs.
DeliverEvent(t) ==
  /\ chan[t] = "joined"
  /\ pendingEv[t] > 0
  /\ pendingEv' = [pendingEv EXCEPT ![t] = @ - 1]
  /\ fetches' = Append(fetches, NewFetch(Callback(page, t), "event", 0))
  /\ lag' = [x \in DOMAIN lag |->
               lag[x] + (IF x = t THEN 1 ELSE 0)
                      - (IF x = Callback(page, t) THEN 1 ELSE 0)]
  /\ UNCHANGED <<env, db, phase, leads, notes, loading, form, submitting, chan,
                 unsubCount, init, add, upd, ops, silent, reads>>

\* Variant of Cleanup: the second channel is left open.
CleanupLeadsOnly(p) == {"leads"}

\* The channels the effect's cleanup unsubscribes.
Cleanup(p) == PageTables(p)

\* return () => { leadsSubscription.unsubscribe(); ...unsubscribe(); }.
\* A closed channel delivers nothing more.  The component's state is gone with
\* the component: its variables take their initial values and no setter changes
\* them any more.
Unmount ==
  /\ phase = "mounted"
  /\ phase' = "unmounted"
  /\ leads' = <<>>
  /\ notes' = <<>>
  /\ loading' = TRUE
  /\ selectedLead' = NULL
  /\ noteText' = <<>>
  /\ submitting' = FALSE
  /\ chan' = [t \in DOMAIN chan |-> IF t \in Cleanup(page) THEN "closed" ELSE chan[t]]
  /\ unsubCount' = [t \in DOMAIN unsubCount |->
                      IF t \in Cleanup(page) THEN unsubCount[t] + 1 ELSE unsubCount[t]]
  /\ pendingEv' = [t \in DOMAIN pendingEv |->
                     IF t \in Cleanup(page) THEN 0 ELSE pendingEv[t]]
  /\ readFailed' = FALSE
  /\ lateStored' = FALSE
  /\ UNCHANGED <<env, db, lag, fetches, init, add, upd, ops, silent>>

\* ------------------------------------------------------------------ reads
\* How a backend call can fail: the result carries an error object ("error"),
\* or the awaited call rejects ("throw").
Failures == {"error", "throw"}

\* The backend answers read i with the rows it holds at that moment.
ServerRead(i) ==
  /\ i \in 1..Len(fetches)
  /\ fetches[i].stage = "sent"
  /\ fetches' = [fetches EXCEPT ![i].stage = "answered", ![i].res = "data",
                   ![i].data = Snapshot(fetches[i].table)]
  /\ UNCHANGED <<env, db, phase, leads, notes, loading, form, submitting,
                 channels, lag, init, add, upd, ops, silent, reads>>

\* fetchData after its await: Promise.all fulfils when both reads have fulfilled
\* and rejects as soon as one rejects; setLoading(false) runs only when it fulfils.
FetchDataAfter(pc, settled, f) ==
  IF pc # "awaiting" THEN pc
  ELSE IF f.res = "throw" THEN "rejected"
  ELSE IF settled = PageTables(page) THEN "done"
  ELSE "awaiting"

\* catch (error) { console.error(...) }: runs when an awaited call rejects.
Logs(res) == res = "throw"

\* Variant of Finally: setSubmitting(false) at the end of the try block.
FinallyOnlyInTry(res, cur) == IF res = "throw" THEN cur ELSE FALSE

\* finally { setSubmitting(false) }.
Finally(res, cur) == FALSE

\* The reads in flight once read i has stored its rows: those of the same table
\* issued before it are overtaken.
Overtake(fs, i) ==
  [j \in 1..Len(fs) |->
     IF j < i /\ fs[j].table = fs[i].table THEN [fs[j] EXCEPT !.late = TRUE]
     ELSE fs[j]]

\* Variant of Stores: the local state is set to whatever came back.
StoresAlways(f) == TRUE

\* const { data } = await ...; if (data) setX(data): whether the answer is stored.
Stores(f) == f.res = "data"

\* Read i settles as f: fetchLeads / fetchNotes continue after their await, and
\* then whoever awaited them.
Settle(i, f) ==
  LET settled == IF f.origin = "initial" /\ f.res # "throw"
                 THEN initSettled \cup {f.table} ELSE initSettled
      pc == IF f.origin = "initial"
            THEN FetchDataAfter(initPc, settled, f) ELSE initPc
  IN
  /\ fetches' = RemoveAt(IF Mounted /\ Stores(f) THEN Overtake(fetches, i)
                          ELSE fetches, i)
  /\ readFailed' = (readFailed \/ (Mounted /\ f.res \in Failures))
  /\ lateStored' = (lateStored \/ (Mounted /\ Stores(f) /\ f.late))
  /\ leads' = IF Mounted /\ f.table = "leads" /\ Stores(f) THEN f.data ELSE leads
  /\ notes' = IF Mounted /\ f.table # "leads" /\ Stores(f) THEN f.data ELSE notes
  /\ initSettled' = settled
  /\ initPc' = pc
  /\ loading' = IF Mounted /\ initPc = "awaiting" /\ pc = "done" THEN FALSE ELSE loading
  /\ IF f.origin = "addNote"
     THEN /\ addPc' = "idle"
          /\ addReq' = NoReq
          /\ submitting' = IF Mounted THEN Finally(f.res, submitting) ELSE submitting
     ELSE UNCHANGED <<addPc, addReq, submitting>>
  /\ upd' = IF f.origin = "update" THEN [upd EXCEPT ![f.k] = NoUpd] ELSE upd
  /\ UNCHANGED <<env, db, phase, form, channels, lag, ops, silent>>

\* The answer of read i reaches the client.
Resolve(i) ==
  /\ i \in 1..Len(fetches)
  /\ fetches[i].stage = "answered"
  /\ Settle(i, fetches[i])

\* Read i fails: the backend returns an error object and data null ("error"),
\* or the awaited call rejects ("throw").  A failed read carries no rows.
ReadFails(i, r) ==
  /\ i \in 1..Len(fetches)
  /\ fetches[i].stage = "sent"
  /\ Settle(i, [fetches[i] EXCEPT !.res = r])

\* ------------------------------------------------------------------ user input
\* onClick={() => setSelectedLead(lead)} on a lead of the rendered list.
SelectLead(l) ==
  /\ Mounted /\ ~loading
  /\ l \in Ids(leads)
  /\ selectedLead # l
  /\ selectedLead' = l
  /\ UNCHANGED <<env, db, phase, leads, notes, loading, noteText, submitting,
                 channels, lag, fetches, init, add, upd, ops, silent, reads>>

\* onChange={(e) => setNoteText(e.target.value)}; the textarea is rendered only
\* while a lead is selected.
TypeText(t) ==
  /\ Mounted /\ ~loading
  /\ selectedLead # NULL
  /\ t # noteText
  /\ noteText' = t
  /\ UNCHANGED <<env, db, phase, leads, notes, loading, selectedLead,
                 submitting, channels, lag, fetches, init, add, upd, ops,
                 silent, reads>>

\* The Cancel button: setSelectedLead(null); setNoteText('').
Cancel ==
  /\ Mounted /\ ~loading
  /\ selectedLead # NULL
  /\ selectedLead' = NULL
  /\ noteText' = <<>>
  /\ UNCHANGED <<env, db, phase, leads, notes, loading, submitting, channels,
                 lag, fetches, init, add, upd, ops, silent, reads>>

\* ------------------------------------------------------------------ addNote
\* Variant of AddGuard: the text is tested without trim().
AddGuardNoTrim(sel, text) == sel # NULL /\ text # <<>>

\* if (!selectedLead || !noteText.trim()) return;  -- TRUE when the call goes on.
AddGuard(sel, text) == sel # NULL /\ Trim(text) # <<>>

\* addNote / handleFollowUp up to its await.  The button that calls it is
\* disabled while submitting, so calls do not overlap.
addNote ==
  /\ Mounted
  /\ ~submitting
  /\ Budget
  /\ addCalls' = addCalls + 1
  /\ IF AddGuard(selectedLead, noteText)
     THEN /\ submitting' = TRUE
          /\ addPc' = "inserting"
          /\ addReq' = [lead_id |-> selectedLead, content |-> noteText,
                        stage |-> "sent", id |-> 0]
          /\ UNCHANGED skipped
     ELSE /\ skipped' = [selectedLead |-> selectedLead, noteText |-> noteText]
          /\ UNCHANGED <<submitting, addPc, addReq>>
  /\ UNCHANGED <<env, db, phase, leads, notes, loading, form, channels, lag,
                 fetches, init, upd, upCalls, extWrites, silent, reads>>

\* The backend commits the insert.
ServerInsert ==
  /\ addPc = "inserting"
  /\ addReq.stage = "sent"
  /\ addReq' = [addReq EXCEPT !.stage = "answered", !.id = Len(dbNotes) + 1]
  /\ dbNotes' = Append(dbNotes, [id |-> Len(dbNotes) + 1,
                                 lead_id |-> addReq.lead_id,
                                 content |-> addReq.content])
  /\ pendingEv' = Publish(pendingEv, SecondTable(page))
  /\ UNCHANGED <<env, dbLeads, phase, leads, notes, loading, form, submitting,
                 chan, unsubCount, lag, fetches, init, addPc, upd, ops,
                 silent, reads>>

\* Variant of ClearsForm: the form is cleared whatever the insert returned.
ClearsFormAlways(res) == TRUE

\* if (!error) { setNoteText(''); setSelectedLead(null); ... }
ClearsForm(res) == res = "ok"

\* Variant of Refetches: no refetch is issued, the change feed is relied on.
RefetchesNever(res) == FALSE

\* if (!error) { ...; await fetchNotes(); }  /  if (!error) { await fetchLeads(); }
Refetches(res) == res = "ok"

\* addNote after the insert's await, the insert having settled as res.
AfterInsert(res) ==
  /\ noteText' = IF Mounted /\ ClearsForm(res) THEN <<>> ELSE noteText
  /\ selectedLead' = IF Mounted /\ ClearsForm(res) THEN NULL ELSE selectedLead
  /\ IF Refetches(res)
     THEN /\ fetches' = Append(fetches, NewFetch(SecondTable(page), "addNote", 0))
          /\ addPc' = "refetching"
          /\ UNCHANGED <<addReq, submitting>>
     ELSE /\ addPc' = "idle"
          /\ addReq' = NoReq
          /\ submitting' = IF Mounted THEN Finally(res, submitting) ELSE submitting
          /\ UNCHANGED fetches
  /\ silent' = IF res \in Failures /\ ~Logs(res) THEN silent + 1 ELSE silent
  /\ UNCHANGED <<env, db, phase, leads, notes, loading, channels, lag, init,
                 upd, ops, reads>>

\* The answer of the committed insert reaches the client.
InsertSettled ==
  /\ addPc = "inserting"
  /\ addReq.stage = "answered"
  /\ AfterInsert("ok")

\* The insert fails: the backend returns an error object ("error"), or the
\* awaited call rejects ("throw").  Nothing is committed.
InsertFails(r) ==
  /\ addPc = "inserting"
  /\ addReq.stage = "sent"
  /\ AfterInsert(r)

\* ------------------------------------------------------------------ updateLeadStatus
\* Variant of Issued: only the transitions of a forward pipeline are issued.
IssuedForwardOnly(prior, s) ==
  <<prior, s>> \in {<<"new", "contacted">>, <<"contacted", "qualified">>,
                    <<"qualified", "closed">>}

\* The client-side check made before the update is issued: there is none.
Issued(prior, s) == TRUE

\* The statuses the page's controls pass to updateLeadStatus: the kanban board
\* of Leads passes the column a lead is dropped on, HandleCustomer has the two
\* buttons "Mark Contacted" and "Qualify".
Offered(p) == IF p = "Leads" THEN Statuses ELSE {"contacted", "qualified"}

LocalStatus(l) == leads[CHOOSE i \in 1..Len(leads) : leads[i].id = l].status

FreeSlot == CHOOSE k \in 1..MaxOps :
              upd[k].pc = "none" /\ \A j \in 1..(k - 1) : upd[j].pc # "none"

\* updateLeadStatus(leadId, newStatus) up to its await, called for a lead of the
\* rendered list.
updateLeadStatus(l, s) ==
  /\ Mounted /\ ~loading
  /\ l \in Ids(leads)
  /\ s \in Offered(page)
  /\ Budget
  /\ upCalls' = upCalls + 1
  /\ upd' = IF Issued(LocalStatus(l), s)
            THEN [upd EXCEPT ![FreeSlot] =
                    [pc |-> "updating", leadId |-> l, status |-> s,
                     stage |-> "sent", over |-> FALSE]]
            ELSE upd
  /\ UNCHANGED <<env, db, phase, leads, notes, loading, form, submitting,
                 channels, lag, fetches, init, add, addCalls, skipped,
                 extWrites, silent, reads>>

\* .from('leads').update({ status }).eq('id', leadId), as the backend applies it.
ApplyUpdate(ls, l, s) == [ls EXCEPT ![l].status = s]

\* Whether the commit of update k overwrites the committed update j before the
\* refetch of j has read the table.
Overwrites(k, j) ==
  /\ upd[j].leadId = upd[k].leadId
  /\ \/ upd[j].pc = "updating" /\ upd[j].stage = "answered"
     \/ /\ upd[j].pc = "refetching"
        /\ \E i \in 1..Len(fetches) :
             /\ fetches[i].origin = "update"
             /\ fetches[i].k = j
             /\ fetches[i].stage = "sent"

\* The backend commits the update.
ServerUpdate(k) ==
  /\ upd[k].pc = "updating"
  /\ upd[k].stage = "sent"
  /\ upd' = [j \in DOMAIN upd |->
               IF j = k THEN [upd[k] EXCEPT !.stage = "answered"]
               ELSE [upd[j] EXCEPT !.over = @ \/ Overwrites(k, j)]]
  /\ dbLeads' = ApplyUpdate(dbLeads, upd[k].leadId, upd[k].status)
  /\ pendingEv' = Publish(pendingEv, "leads")
  /\ UNCHANGED <<env, dbNotes, phase, leads, notes, loading, form, submitting,
                 chan, unsubCount, lag, fetches, init, add, ops, silent, reads>>

\* updateLeadStatus after the update's await, the update having settled as res.
AfterUpdate(k, res) ==
  /\ IF Refetches(res)
     THEN /\ fetches' = Append(fetches, NewFetch("leads", "update", k))
          /\ upd' = [upd EXCEPT ![k].pc = "refetching"]
     ELSE /\ upd' = [upd EXCEPT ![k] = NoUpd]
          /\ UNCHANGED fetches
  /\ silent' = IF res \in Failures /\ ~Logs(res) THEN silent + 1 ELSE silent
  /\ UNCHANGED <<env, db, phase, leads, notes, loading, form, submitting,
                 channels, lag, init, add, ops, reads>>

\* The answer of the committed update reaches the client.
UpdateSettled(k) ==
  /\ upd[k].pc = "updating"
  /\ upd[k].stage = "answered"
  /\ AfterUpdate(k, "ok")

\* The update fails: an error object is returned, or the awaited call rejects.
UpdateFails(k, r) ==
  /\ upd[k].pc = "updating"
  /\ upd[k].stage = "sent"
  /\ AfterUpdate(k, r)

\* ------------------------------------------------------------------ other clients
\* Another client inserts a row into the second table.
ExternalInsert(l) ==
  /\ Budget
  /\ extWrites' = extWrites + 1
  /\ dbNotes' = Append(dbNotes, [id |-> Len(dbNotes) + 1, lead_id |-> l,
                                 content |-> <<"a">>])
  /\ pendingEv' = Publish(pendingEv, SecondTable(page))
  /\ UNCHANGED <<env, dbLeads, phase, leads, notes, loading, form, submitting,
                 chan, unsubCount, lag, fetches, init, add, upd, addCalls,
                 skipped, upCalls, silent, reads>>

\* ------------------------------------------------------------------ specification
Next ==
  \/ Mount
  \/ \E t \in PageTables(page) : Joined(t)
  \/ \E t \in PageTables(page) : DeliverEvent(t)
  \/ Unmount
  \/ \E i \in 1..Len(fetches) : ServerRead(i)
  \/ \E i \in 1..Len(fetches) : Resolve(i)
  \/ \E i \in 1..Len(fetches), r \in Failures : ReadFails(i, r)
  \/ \E l \in LeadIds : SelectLead(l)
  \/ \E t \in Texts : TypeText(t)
  \/ Cancel
  \/ addNote
  \/ ServerInsert
  \/ InsertSettled
  \/ \E r \in Failures : InsertFails(r)
  \/ \E l \in LeadIds, s \in Statuses : updateLeadStatus(l, s)
  \/ \E k \in 1..MaxOps : ServerUpdate(k)
  \/ \E k \in 1..MaxOps : UpdateSettled(k)
  \/ \E k \in 1..MaxOps, r \in Failures : UpdateFails(k, r)
  \/ \E l \in LeadIds : ExternalInsert(l)

Spec == Init /\ [][Next]_vars

\* ------------------------------------------------------------------ the read policies alone
\* Any users table, any session (NULL: not signed in) and any assignment of the
\* leads; no page is running.
PolicyInit ==
  /\ page = "Leads"
  /\ users \in [UserIds -> Roles \cup {NULL}]
  /\ caller \in UserIds \cup {NULL}
  /\ published = MigrationPublication
  /\ dbLeads \in [LeadIds -> [status : {"new"}, assigned_to : UserIds \cup {NULL}]]
  /\ dbNotes = <<>>
  /\ Constructed

\* The caller SELECTs a row of `table`: the lead l, a note of lead l, or a row
\* of a table that has no lead.
Select(table, l) ==
  /\ query' = [uid |-> caller, table |-> table,
               lead |-> IF table \in {"leads", "notes"} THEN l ELSE NULL,
               allowed |-> SelectAllowed(users, dbLeads, caller, table,
                             IF table = "leads" THEN LeadRow(l)
                             ELSE [id |-> 1, lead_id |-> l, content |-> <<"a">>])]
  /\ UNCHANGED <<page, caller, users, published, db, phase, leads, notes,
                 loading, form, submitting, channels, lag, fetches, init, add,
                 upd, ops, silent, reads>>

PolicyNext == \E table \in PolicyTables, l \in LeadIds : Select(table, l)

PolicySpec == PolicyInit /\ [][PolicyNext]_vars

\* ------------------------------------------------------------------ claims
\* Steps of the handlers, recognised by what they change.
FetchOf(origin, k, stage) ==
  \E i \in 1..Len(fetches) :
    fetches[i].origin = origin /\ fetches[i].k = k /\ fetches[i].stage = stage

\* addNote leaves its insert with the row committed / with nothing committed.
InsertSuccessStep ==
  addPc = "inserting" /\ addReq.stage = "answered" /\ addPc' # "inserting"

InsertFailStep ==
  addPc = "inserting" /\ addReq.stage = "sent" /\ addPc' # "inserting"

\* addNote settles on the answer of its refetch / on an answer that carries rows.
AddSettleStep == addPc = "refetching" /\ addPc' = "idle"

AddSettleDataStep == AddSettleStep /\ FetchOf("addNote", 0, "answered")

\* A text of whitespace only (the empty text included).
Blank(text) == \A i \in 1..Len(text) : text[i] = " "

\* C1: on a mounted page every change event delivered on a subscribed table T
\* starts exactly one refetch of T and none of another table: for each table,
\* the events delivered on it and the event-triggered refetches of it are equal
\* in number.
C1_RefetchPerEvent == \A t \in DOMAIN lag : lag[t] = 0

\* Events have been delivered on both channels, and both refetches are in flight.
C1_Witness ==
  /\ Mounted
  /\ \E i \in 1..Len(fetches) :
       fetches[i].origin = "event" /\ fetches[i].table = "leads"
  /\ \E i \in 1..Len(fetches) :
       fetches[i].origin = "event" /\ fetches[i].table = SecondTable(page)
  /\ \A t \in DOMAIN lag : lag[t] = 0

\* C2 as stated: once addNote has settled after a successful insert, the local
\* list contains the new entry, the text is empty and no lead is selected.
C2_Original ==
  [][AddSettleStep /\ Mounted =>
       /\ addReq.id \in Ids(notes')
       /\ noteText' = <<>>
       /\ selectedLead' = NULL]_vars

\* C2, amended: when the insert succeeds, addNote at that moment clears the text
\* and the selected lead and starts a refetch of the table; when that refetch
\* resolves with rows, the local list contains the new entry.
C2_InsertSucceeds ==
  [][/\ InsertSuccessStep /\ Mounted =>
          /\ noteText' = <<>>
          /\ selectedLead' = NULL
          /\ addPc' = "refetching"
          /\ fetches' = Append(fetches, NewFetch(SecondTable(page), "addNote", 0))
     /\ AddSettleDataStep /\ Mounted => addReq.id \in Ids(notes')]_vars

\* addNote has settled with rows: the page's own note is in the list, the form
\* is clear.
C2_Witness ==
  /\ Mounted
  /\ addCalls = 1 /\ addPc = "idle" /\ extWrites = 0
  /\ Len(notes) = 1
  /\ noteText = <<>> /\ selectedLead = NULL

\* C3: with no lead selected, or a text that is empty or whitespace only, a call
\* of addNote issues no backend call and changes no state variable.
C3_GuardReturns ==
  [][addCalls' # addCalls /\ (selectedLead = NULL \/ Blank(noteText)) =>
       UNCHANGED <<env, db, phase, leads, notes, loading, form, submitting,
                   channels, lag, fetches, init, add, upd, upCalls, extWrites,
                   silent, reads>>]_vars

\* addNote was called with a lead selected and a text of one blank, and returned.
C3_Witness ==
  /\ skipped.selectedLead # NULL
  /\ skipped.noteText = <<" ">>
  /\ addPc = "idle" /\ ~submitting /\ dbNotes = <<>>

\* The event-triggered reads in flight.
EventFetches(fs) == Cardinality({i \in 1..Len(fs) : fs[i].origin = "event"})

\* C4: unmounting closes each of the page's two channels exactly once: after
\* unmount every channel is closed and was unsubscribed once, before it none
\* was, and after unmount no refetch is started by a change event.
C4_UnmountCloses ==
  /\ [](phase = "unmounted" =>
          \A t \in PageTables(page) : chan[t] = "closed" /\ unsubCount[t] = 1)
  /\ [](phase # "unmounted" => \A t \in PageTables(page) : unsubCount[t] = 0)
  /\ [][phase = "unmounted" =>
          lag' = lag /\ EventFetches(fetches') <= EventFetches(fetches)]_vars

\* The page unmounted while an insert and a read were in flight.
C4_Witness ==
  /\ phase = "unmounted"
  /\ addPc = "inserting"
  /\ fetches # <<>>
  /\ \A t \in PageTables(page) : unsubCount[t] = 1

\* C5: when the insert fails (error object returned, or the call throws), the
\* handler leaves the text and the selected lead as they are and starts no
\* refetch.
C5_FailureKeepsForm ==
  [][InsertFailStep =>
       /\ noteText' = noteText
       /\ selectedLead' = selectedLead
       /\ fetches' = fetches
       /\ addPc' = "idle"]_vars

\* An insert has failed with an error object; the form still holds the text.
C5_Witness ==
  /\ Mounted
  /\ upCalls = 0 /\ silent = 1 /\ addPc = "idle"
  /\ selectedLead # NULL /\ noteText = <<"a">>
  /\ fetches = <<>>

\* C6: every failed write (insert or update; error object returned, or the call
\* throws) is logged with console.error before the handler settles.
C6_FailuresLogged == silent = 0

\* C7: on a mounted page submitting is true exactly while an addNote that passed
\* the guard has not settled.
C7_Submitting == Mounted => (submitting <=> addPc # "idle")

\* An insert has failed and the flag is down again.
C7_Witness ==
  /\ Mounted
  /\ upCalls = 0 /\ silent = 1
  /\ addPc = "idle" /\ ~submitting

StatusIn(rows, l) == {rows[i].status : i \in {j \in 1..Len(rows) : rows[j].id = l}}

\* updateLeadStatus k settles on a refetch answer that carries rows.
UpdateSettleDataStep(k) ==
  /\ upd[k].pc = "refetching"
  /\ upd'[k].pc # "refetching"
  /\ FetchOf("update", k, "answered")

\* Every call issues the update, and the backend sets that lead's status.
UpdateIssuedAndApplied ==
  /\ upCalls' # upCalls =>
       \E k \in 1..MaxOps :
         /\ upd[k].pc = "none"
         /\ upd'[k].pc = "updating" /\ upd'[k].stage = "sent"
  /\ \A k \in 1..MaxOps :
       upd[k].pc = "updating" /\ upd[k].stage = "sent" /\ upd'[k].stage = "answered" =>
         /\ dbLeads'[upd[k].leadId].status = upd[k].status
         /\ \A l \in LeadIds \ {upd[k].leadId} : dbLeads'[l] = dbLeads[l]

\* C8 as stated: no transition check, and when the backend accepts the write
\* and the refetch succeeds the lead's status in local state is s.
C8_Original ==
  [][/\ UpdateIssuedAndApplied
     /\ \A k \in 1..MaxOps :
          UpdateSettleDataStep(k) /\ Mounted =>
            StatusIn(leads', upd[k].leadId) = {upd[k].status}]_vars

\* C8, amended: no transition check is made: every call issues the update and
\* an accepted update sets the lead's status to s whatever it was; when the
\* refetch succeeds, the lead's status in local state is s unless another
\* update of the same lead was accepted between this one and the refetch's read.
C8_AnyTransition ==
  [][/\ UpdateIssuedAndApplied
     /\ \A k \in 1..MaxOps :
          UpdateSettleDataStep(k) /\ Mounted /\ ~upd[k].over =>
            StatusIn(leads', upd[k].leadId) = {upd[k].status}]_vars

\* On Leads, l1 was set to closed, the list shows it, and the update back to new
\* has been accepted.
C8_Witness ==
  /\ page = "Leads"
  /\ upCalls = 2
  /\ StatusIn(leads, "l1") = {"closed"}
  /\ dbLeads["l1"].status = "new"
  /\ \E k \in 1..MaxOps :
       upd[k].status = "new" /\ upd[k].stage = "answered" /\ ~upd[k].over

\* C9: on a mounted page loading is false once both initial reads have settled,
\* whatever their outcome.
C9_LoadingEnds ==
  Mounted /\ (\A i \in 1..Len(fetches) : fetches[i].origin # "initial") => ~loading

\* The caller's role, and the three cases of the policy on leads.
RoleOf(uid) == IF uid \in UserIds THEN users[uid] ELSE NULL

OwnsLead(uid, l) == l \in LeadIds /\ uid \in UserIds /\ dbLeads[l].assigned_to = uid

ThreeCases(q) ==
  \/ RoleOf(q.uid) = "superadmin"
  \/ RoleOf(q.uid) = "hc"
  \/ RoleOf(q.uid) = "admin" /\ OwnsLead(q.uid, q.lead)

\* C10 as stated: a lead or a note is readable exactly in the three cases, and
\* no row of a table with a policy is readable outside them.
C10_Original ==
  query # NoQuery =>
    /\ query.table \in {"leads", "notes"} => (query.allowed <=> ThreeCases(query))
    /\ query.allowed => ThreeCases(query)

\* C10, amended: a lead or a note is readable exactly in the three cases; a row
\* of handle_customer_data exactly by a superadmin or hc; every row of users,
\* products, packages and targets by every caller.
C10_ReadPolicies ==
  query # NoQuery =>
    /\ query.table \in {"leads", "notes"} => (query.allowed <=> ThreeCases(query))
    /\ query.table = "handle_customer_data" =>
         (query.allowed <=> RoleOf(query.uid) \in {"superadmin", "hc"})
    /\ query.table \in {"users", "products", "packages", "targets"} => query.allowed

\* An admin reads a note of a lead assigned to them.
C10_Witness ==
  /\ query.table = "notes"
  /\ query.allowed
  /\ RoleOf(query.uid) = "admin"

\* The reads in flight, without the mark of having been overtaken.
Requests(fs) ==
  [j \in 1..Len(fs) |->
     [table |-> fs[j].table, origin |-> fs[j].origin, k |-> fs[j].k,
      stage |-> fs[j].stage, data |-> fs[j].data]]

\* The step in which read i settles.
SettleStep(i) ==
  /\ i \in 1..Len(fetches)
  /\ Requests(fetches') = RemoveAt(Requests(fetches), i)

\* No call of a handler is running and no read is in flight.
Idle ==
  /\ fetches = <<>>
  /\ addPc = "idle"
  /\ \A k \in DOMAIN upd : upd[k].pc = "none"

\* C11: on a mounted page, whichever of the overlapping reads of a table
\* settles, in whatever order: a response that carries rows sets the local
\* state of its table to exactly those rows and leaves the other table alone, a
\* response without rows (a failed read) changes neither, and the local state
\* changes in no other step; so the local state is always the rows of the
\* response with rows that resolved last.
C11_LastResponseWins ==
  [][(phase = "mounted" /\ phase' = "mounted") =>
       /\ \A i \in 1..Len(fetches) :
            SettleStep(i) =>
              IF fetches[i].stage = "answered"
              THEN IF fetches[i].table = "leads"
                   THEN leads' = fetches[i].data /\ notes' = notes
                   ELSE notes' = fetches[i].data /\ leads' = leads
              ELSE leads' = leads /\ notes' = notes
       /\ (Len(fetches') >= Len(fetches)) => (leads' = leads /\ notes' = notes)
    ]_vars

\* Two reads of one table overlapped and resolved against the order of issue,
\* both with rows; all reads have resolved, and the local state holds the rows of
\* the one that resolved last, which are not the rows the backend holds now.
C11_Witness ==
  /\ Mounted /\ Idle
  /\ lateStored /\ ~readFailed
  /\ \/ leads # Snapshot("leads")
     \/ notes # Snapshot(SecondTable(page))

\* The backend has stopped changing, every change event has been delivered and
\* every read has resolved with rows.
Quiescent ==
  /\ Mounted /\ Idle
  /\ initPc = "done"
  /\ ~readFailed
  /\ \A t \in DOMAIN chan : chan[t] = "joined" /\ pendingEv[t] = 0

\* C12: on a mounted page, once the backend has stopped changing, every change
\* event has been delivered and every read has resolved with rows, the local
\* state of each table of the page equals the rows of that table the backend
\* lets the caller read.
C12_CacheConverges ==
  Quiescent =>
    /\ leads = Snapshot("leads")
    /\ notes = Snapshot(SecondTable(page))

\* A change of table t is committed in this step.
Committed(t) == IF t = "leads" THEN dbLeads' # dbLeads ELSE dbNotes' # dbNotes

\* C13: every table a page subscribes to is among the tables the migration adds
\* to the publication, and so, with the publication as the migration leaves it,
\* a change committed on a subscribed table while its channel is active produces
\* a change event on that channel.
C13_SubscribedPublished ==
  /\ [](Subscriptions(page) \subseteq MigrationPublication)
  /\ [][published = MigrationPublication =>
          \A t \in Subscriptions(page) :
            (chan[t] = "joined" /\ Committed(t)) =>
              pendingEv'[t] = pendingEv[t] + 1]_vars

====
